---- MODULE Spec2Model ----
(***************************************************************************)
(* Model of daily-steps.py: a single-shot batch that logs into a fitness   *)
(* service, collects a window of daily step records, and upserts them into *)
(* a steps table and a wellness table held by a remote table service.      *)
(*                                                                         *)
(* Conventions.                                                            *)
(*  - A calendar date is the integer offset x of startdate + x days.       *)
(*  - A Python float (a distance in km, a duration in hours) is held in    *)
(*    hundredths: the float f is the integer 100*f.  Inputs are chosen so  *)
(*    that every quotient is exact in hundredths (seconds are multiples of *)
(*    36) and no rounding tie occurs (meters never end in 5).              *)
(*  - A JSON value of the sleep payload is a tagged record: t is one of    *)
(*    "none", "num", "float", "str", "list", "dict".  A str holds its      *)
(*    characters as a sequence; a dict holds a function from keys.         *)
(***************************************************************************)
EXTENDS Integers, Sequences, FiniteSets, TLC

\* ---------------------------------------------------------------- bounds
\* Days added to startdate to reach today (the source walks 7; the model
\* walks a shorter window of WindowDays + 1 days).
WindowDays == 1
\* Consecutive executions of main() in one behaviour.
MaxRuns == 2

\* ---------------------------------------------------- Python value helpers
None == [t |-> "none"]
Num(n) == [t |-> "num", v |-> n]
Float(c) == [t |-> "float", c |-> c]
Str(s) == [t |-> "str", s |-> s]
List(l) == [t |-> "list", l |-> l]
Dict(d) == [t |-> "dict", d |-> d]
EmptyDict == Dict(<<>>)

\* bool(v), as used by "if not sleep_data" and "and daily_sleep['sleepScores']"
Truthy(v) ==
  CASE v.t = "none" -> FALSE
    [] v.t = "num" -> v.v # 0
    [] v.t = "float" -> v.c # 0
    [] v.t = "str" -> Len(v.s) > 0
    [] v.t = "list" -> Len(v.l) > 0
    [] v.t = "dict" -> DOMAIN v.d # {}

\* k in d
HasKey(d, k) == k \in DOMAIN d.d

\* d.get(k, default) on a dict d
Get(d, k, default) == IF HasKey(d, k) THEN d.d[k] ELSE default

\* x / 3600 in hundredths; a TypeError for anything but a number
Div3600(v) ==
  CASE v.t = "num" -> [ok |-> TRUE, c |-> (v.v * 100) \div 3600]
    [] v.t = "float" -> [ok |-> TRUE, c |-> v.c \div 3600]
    [] OTHER -> [ok |-> FALSE, c |-> 0]

Digits == <<"0", "1", "2", "3", "4", "5", "6", "7", "8", "9">>
DigitVal(ch) == (CHOOSE k \in 1..10 : Digits[k] = ch) - 1
IsDigit(ch) == \E k \in 1..10 : Digits[k] = ch

RECURSIVE ParseDigits(_, _)
ParseDigits(s, acc) ==
  IF s = <<>> THEN acc ELSE ParseDigits(Tail(s), acc * 10 + DigitVal(Head(s)))

\* int(v): truncation of a float, decimal parse of a digit string,
\* ValueError / TypeError for anything else
PyInt(v) ==
  CASE v.t = "num" -> [ok |-> TRUE, v |-> v.v]
    [] v.t = "float" -> [ok |-> TRUE, v |-> v.c \div 100]
    [] v.t = "str" ->
         IF Len(v.s) > 0 /\ \A k \in 1..Len(v.s) : IsDigit(v.s[k])
         THEN [ok |-> TRUE, v |-> ParseDigits(v.s, 0)]
         ELSE [ok |-> FALSE, v |-> 0]
    [] OTHER -> [ok |-> FALSE, v |-> 0]

\* --------------------------------------------------- extract_sleep_metrics
Raised == [raised |-> TRUE, duration |-> 0, score |-> None]
Ret(d, s) == [raised |-> FALSE, duration |-> d, score |-> s]

\* entry.get('sleepTimeSeconds', 0) / 3600 and entry.get('sleepScore', 0)
\* on a list element or a flat object
FlatMetrics(entry) ==
  IF entry.t # "dict" THEN Raised
  ELSE LET q == Div3600(Get(entry, "sleepTimeSeconds", Num(0)))
       IN IF ~q.ok THEN Raised
          ELSE Ret(q.c, Get(entry, "sleepScore", Num(0)))

\* the score of the dailySleepDTO branch
NestedScore(daily_sleep) ==
  IF HasKey(daily_sleep, "sleepScores") /\ Truthy(daily_sleep.d["sleepScores"])
  THEN LET scores == daily_sleep.d["sleepScores"]
       IN IF scores.t # "dict" THEN [ok |-> FALSE, v |-> 0]
          ELSE LET overall == Get(scores, "overall", EmptyDict)
               IN IF overall.t = "dict" /\ HasKey(overall, "value")
                  THEN PyInt(overall.d["value"])
                  ELSE IF overall.t \in {"num", "float", "str"}
                       THEN PyInt(overall)
                       ELSE [ok |-> TRUE, v |-> 0]
  ELSE [ok |-> TRUE, v |-> 0]

NestedMetrics(daily_sleep) ==
  IF daily_sleep.t # "dict" THEN Raised
  ELSE LET q == Div3600(Get(daily_sleep, "sleepTimeSeconds", Num(0)))
           sc == NestedScore(daily_sleep)
       IN IF ~q.ok \/ ~sc.ok THEN Raised ELSE Ret(q.c, Num(sc.v))

\* extract_sleep_metrics reading the last element of a list
extract_sleep_metrics_LastEntry(sleep_data) ==
  IF ~Truthy(sleep_data) THEN Ret(0, Num(0))
  ELSE IF sleep_data.t = "list" THEN FlatMetrics(sleep_data.l[Len(sleep_data.l)])
  ELSE IF sleep_data.t = "dict"
       THEN IF HasKey(sleep_data, "dailySleepDTO")
            THEN NestedMetrics(sleep_data.d["dailySleepDTO"])
            ELSE FlatMetrics(sleep_data)
  ELSE Ret(0, Num(0))

extract_sleep_metrics(sleep_data) ==
  IF ~Truthy(sleep_data) THEN Ret(0, Num(0))
  ELSE IF sleep_data.t = "list" THEN FlatMetrics(sleep_data.l[1])
  ELSE IF sleep_data.t = "dict"
       THEN IF HasKey(sleep_data, "dailySleepDTO")
            THEN NestedMetrics(sleep_data.d["dailySleepDTO"])
            ELSE FlatMetrics(sleep_data)
  ELSE Ret(0, Num(0))

\* ------------------------------------------------------------ environment
\* daterange of get_all_daily_steps: startdate + x for x in range(n + 1)
daterange == [x \in 1..(WindowDays + 1) |-> x - 1]

Walking == "Walking"

\* what garmin.login / get_daily_steps / get_sleep_data can do: return, or
\* raise with a message that holds "429" or with another message
GarminOutcomes == {"ok", "429", "error"}
\* what a call on the table client can do: return or raise
NotionOutcomes == {"ok", "error"}

\* "429" in str(e) or "Too Many Requests" in str(e)
IsRateLimit(e) == e \in {"429", "Too Many Requests"}

\* retry_after = 10 * (2 ** retry_count)
Backoff(count) == 10 * (2 ^ count)

\* MayRetry with the bound off by one
MayRetry_OffByOne(count) == count <= 3

\* MayRetry allowing a fourth retry
MayRetry_UpToFour(count) == count < 4

\* if retry_count < 3
MayRetry(count) == count < 3

\* ShouldRetryLogin retrying after every failure
ShouldRetryLogin_Always(e) == TRUE

\* main, line 182: the login is tried again after a rate-limit error only
ShouldRetryLogin(e) == IsRateLimit(e)

StepRecord(d, n, g, m) ==
  [calendarDate |-> d, totalSteps |-> n, stepGoal |-> g, totalDistance |-> m]

\* upstream step data: what get_daily_steps(d, d) returns for each day
StepsEveryDay == [d \in 0..WindowDays |-> <<StepRecord(d, 15000, 10000, 8046)>>]
StepsMixed ==
  [d \in 0..WindowDays |->
     IF d = 0 THEN <<StepRecord(0, 15000, 10000, 0)>>
     ELSE <<StepRecord(d, 8000 + d, 10000, 6437)>>]
StepsSubRecords ==
  [d \in 0..WindowDays |->
     IF d = 0 THEN <<StepRecord(0, 8500, 10000, 6437), StepRecord(0, 15000, 10000, 12008)>>
     ELSE <<>>]

SleepEntry(secs, score) == Dict([sleepTimeSeconds |-> secs, sleepScore |-> score])
SleepDTO(secs, overall) ==
  Dict([dailySleepDTO |->
          Dict([sleepTimeSeconds |-> secs, sleepScores |-> Dict([overall |-> overall])])])

\* upstream sleep data: what get_sleep_data(d) returns for each day
SleepGood == [d \in 0..WindowDays |-> List(<<SleepEntry(Num(25200), Num(90))>>)]
SleepMixed ==
  [d \in 0..WindowDays |->
     IF d = 0 THEN SleepEntry(Num(23400), Num(90))
     ELSE SleepDTO(Num(27000), Dict([value |-> Str(<<"8", "8">>)]))]
SleepOdd ==
  [d \in 0..WindowDays |->
     IF d = 0 THEN List(<<SleepEntry(Num(27000), Str(<<"9", "0">>))>>)
     ELSE SleepDTO(Num(25200), Num(84))]

\* rows of the two tables
TitleOf(content) == List(<<[text |-> [content |-> content]]>>)
StepsRow(id, d, title, n, g, km) ==
  [id |-> id, Date |-> d, ActivityType |-> title, TotalSteps |-> n,
   StepGoal |-> g, TotalDistanceKm |-> km]
WellnessRow(id, d, a, b, c) ==
  [id |-> id, Date |-> d, StepsFlag |-> a, SleepFlag |-> b, ExerciseFlag |-> c]

\* the runs the model explores: upstream data, the rows of the general
\* activity table (NOTION_DB_ID), the optional wellness table
\* identifier and the rows the tables hold before the first run
Scenarios ==
  { [steps |-> StepsEveryDay, sleep |-> SleepGood, activities |-> <<[Date |-> 0, ActivityType |-> "Running"]>>,
     wellness_database_id |-> "wellness", steps0 |-> <<>>, wellness0 |-> <<>>],
    [steps |-> StepsMixed, sleep |-> SleepMixed, activities |-> <<[Date |-> 0, ActivityType |-> Walking]>>,
     wellness_database_id |-> "wellness",
     steps0 |-> <<StepsRow(1, 0, TitleOf(Walking), 8000, 10000, 0)>>,
     wellness0 |-> <<WellnessRow(1, 0, TRUE, TRUE, TRUE)>>],
    [steps |-> StepsSubRecords, sleep |-> SleepGood, activities |-> <<[Date |-> 0, ActivityType |-> Walking]>>,
     wellness_database_id |-> "wellness", steps0 |-> <<>>, wellness0 |-> <<>>],
    [steps |-> StepsMixed, sleep |-> SleepOdd, activities |-> <<[Date |-> 0, ActivityType |-> "Running"]>>,
     wellness_database_id |-> "wellness", steps0 |-> <<>>, wellness0 |-> <<>>],
    [steps |-> StepsEveryDay, sleep |-> SleepGood, activities |-> <<[Date |-> 0, ActivityType |-> Walking]>>,
     wellness_database_id |-> "",
     steps0 |-> <<StepsRow(1, 0, TitleOf(Walking), 15000, 10000, 805)>>,
     wellness0 |-> <<>>] }

\* ------------------------------------------------------------------ state
VARIABLES
  env,              \* the scenario: upstream data and configuration
  run,              \* which execution of main() this is
  pc,               \* where main() stands
  uncaught,         \* the exception that left main(), "" if none
  steps_table,      \* rows of the steps table (NOTION_STEPS_DB_ID)
  wellness_table,   \* rows of the wellness table (NOTION_WELLNESS_DB_ID)
  waits,            \* backoff sleeps of the retrying call in progress
  retry_count,      \* retry_count of the active get_all_daily_steps frame
  di,               \* position of d in daterange
  daily_steps,      \* daily_steps of get_all_daily_steps, then of main
  i,                \* position of steps in daily_steps
  steps,            \* loop variable of main
  existing_steps,   \* result of daily_steps_exist
  sleep_retry,      \* retry_count of the active get_sleep_data frame
  sleep_data,       \* result of get_sleep_data
  goals,            \* steps_goal_met and sleep_goal_met
  exercise_logged,  \* exercise_logged
  existing_entry,   \* results of the wellness lookup
  log,              \* remote calls of the login, then of the current record
  writes,           \* pages.create / pages.update calls of this run
  data_called,      \* some remote call other than login was made in this run
  failed,           \* some remote call has raised so far
  xin, xout         \* argument and result of extract_sleep_metrics alone

config == <<env>>
tables == <<steps_table, wellness_table>>
collector == <<retry_count, di, daily_steps>>
record == <<i, steps, existing_steps>>
wellness == <<sleep_retry, sleep_data, goals, exercise_logged, existing_entry>>
extract == <<xin, xout>>
vars == <<env, run, pc, uncaught, steps_table, wellness_table, waits, retry_count, di, daily_steps, i, steps, existing_steps,
          sleep_retry, sleep_data, goals, exercise_logged, existing_entry, log, writes,
          data_called, failed, xin, xout>>

NoGoals == [steps_goal_met |-> FALSE, sleep_goal_met |-> FALSE]
NoRecord == StepRecord(0, 0, 0, 0)

\* one remote call: the operation, the table (or "garmin"), its argument,
\* whether it returned, the message of its exception, and what it returned
Call(op, db, arg, e, res) ==
  [op |-> op, db |-> db, arg |-> arg, ok |-> (e = "ok"),
   err |-> IF e = "ok" THEN "" ELSE e, res |-> res]

Init ==
  /\ env \in Scenarios
  /\ run = 1
  /\ pc = "login"
  /\ uncaught = ""
  /\ steps_table = env.steps0
  /\ wellness_table = env.wellness0
  /\ waits = <<>>
  /\ retry_count = 0
  /\ di = 1
  /\ daily_steps = <<>>
  /\ i = 0
  /\ steps = NoRecord
  /\ existing_steps = None
  /\ sleep_retry = 0
  /\ sleep_data = None
  /\ goals = NoGoals
  /\ exercise_logged = FALSE
  /\ existing_entry = <<>>
  /\ log = <<>>
  /\ writes = 0
  /\ data_called = FALSE
  /\ failed = FALSE
  /\ xin = None
  /\ xout = Ret(0, Num(0))

\* ------------------------------------------------------------------ login
\* main() going on to the collection after a failed login
LoginFailed_GoesOn == "collect"

\* main, lines 190 and 192: the return after a failed login
LoginFailed == "login_failed"

\* main, lines 177-192: the first garmin.login()
Login ==
  /\ pc = "login"
  /\ \E e \in GarminOutcomes :
       /\ log' = Append(log, Call("login", "garmin", None, e, None))
       /\ failed' = (failed \/ e # "ok")
       /\ IF e = "ok" THEN pc' = "collect" /\ waits' = <<>>
          ELSE IF ShouldRetryLogin(e) THEN pc' = "login_retry" /\ waits' = <<10>>
          ELSE pc' = LoginFailed /\ waits' = <<>>
  /\ UNCHANGED <<config, run, uncaught, tables, collector, record, wellness,
                 writes, data_called, extract>>

\* main, lines 185-190: the second garmin.login(), after time.sleep(10)
LoginRetry ==
  /\ pc = "login_retry"
  /\ \E e \in GarminOutcomes :
       /\ log' = Append(log, Call("login", "garmin", None, e, None))
       /\ failed' = (failed \/ e # "ok")
       /\ IF e = "ok" THEN pc' = "collect" /\ waits' = <<>>
          ELSE pc' = LoginFailed /\ waits' = waits
  /\ UNCHANGED <<config, run, uncaught, tables, collector, record, wellness,
                 writes, data_called, extract>>

\* -------------------------------------------------------------- collector
\* main, lines 200-201: the for loop takes its next record, or ends
NextRecord ==
  IF i < Len(daily_steps)
  THEN pc' = "lookup" /\ i' = i + 1
  ELSE pc' = "done" /\ i' = i

\* daily_steps with the response put in front
AddSteps_InFront(collected, response) == response \o collected

\* get_all_daily_steps, line 16: daily_steps += steps
AddSteps(collected, response) == collected \o response

\* get_all_daily_steps, lines 13-28: one pass of the loop body for the day
\* daterange[di] when the call ends as e; the recursive call of line 25
\* starts over with an empty daily_steps and its result is the result of
\* every enclosing frame
FetchStepsOn(e) ==
  LET d == daterange[di]
      restart == e # "ok" /\ IsRateLimit(e) /\ MayRetry(retry_count)
      got == IF e = "ok" THEN AddSteps(daily_steps, env.steps[d]) ELSE daily_steps
  IN /\ data_called' = TRUE
     /\ failed' = (failed \/ e # "ok")
     /\ waits' = IF e # "ok" /\ IsRateLimit(e)
                 THEN Append(waits, Backoff(retry_count)) ELSE waits
     /\ IF restart
        THEN /\ retry_count' = retry_count + 1
             /\ di' = 1
             /\ daily_steps' = <<>>
             /\ pc' = pc
        ELSE /\ retry_count' = retry_count
             /\ daily_steps' = got
             /\ IF di < Len(daterange)
                THEN di' = di + 1 /\ pc' = pc
                ELSE di' = di /\ pc' = "collected"
     /\ UNCHANGED <<config, run, uncaught, tables, record, wellness, writes, extract>>

\* the step of the collector; the log of the login is dropped
FetchSteps ==
  /\ pc = "collect"
  /\ \E e \in GarminOutcomes : FetchStepsOn(e)
  /\ log' = <<>>

\* the same step, with the call added to the log
FetchStepsLogged ==
  /\ pc = "collect"
  /\ \E e \in GarminOutcomes :
       /\ FetchStepsOn(e)
       /\ log' = Append(log, Call("get_daily_steps", "garmin", daterange[di], e,
                                  IF e = "ok" THEN env.steps[daterange[di]] ELSE <<>>))

\* main, lines 199-200: get_all_daily_steps has returned and its frame is
\* gone; the for loop takes the first record, or ends at once
Collected ==
  /\ pc = "collected"
  /\ retry_count' = 0
  /\ di' = 1
  /\ waits' = <<>>
  /\ NextRecord
  /\ UNCHANGED <<config, run, uncaught, tables, daily_steps, steps, existing_steps,
                 wellness, log, writes, data_called, failed, extract>>

\* ------------------------------------------------------------ table client
\* the text a title filter compares: the content of the title's first item
TitleText(title) == IF Len(title.l) > 0 THEN title.l[1].text.content ELSE ""

\* pages.update: the named properties of the page are replaced, the others kept
Merge(row, props) ==
  [f \in DOMAIN row |-> IF f \in DOMAIN props THEN props[f] ELSE row[f]]
UpdatePage(table, page_id, props) ==
  [k \in DOMAIN table |->
     IF table[k].id = page_id THEN Merge(table[k], props) ELSE table[k]]

\* pages.create: a new page with the next free identifier, after the others
CreatePage(table, props) ==
  Append(table, ("id" :> (Len(table) + 1)) @@ props)

\* ------------------------------------------------------------- steps sync
\* daily_steps_exist, lines 32-38: rows of activity_date titled "Walking"
QuerySteps(table, activity_date) ==
  SelectSeq(table, LAMBDA r : r.Date = activity_date /\ TitleText(r.ActivityType) = Walking)

\* daily_steps_exist finding no row
daily_steps_exist_NotFound(results) == None

\* daily_steps_exist, line 39
daily_steps_exist(results) == IF results # <<>> THEN results[1] ELSE None

\* steps_need_update, lines 43-49: the stored number of kilometres is compared
\* with the record's totalDistance, the stored title list with a string
steps_need_update(existing, new_steps) ==
  \/ existing.TotalSteps # new_steps.totalSteps
  \/ existing.StepGoal # new_steps.stepGoal
  \/ existing.TotalDistanceKm # new_steps.totalDistance * 100
  \/ existing.ActivityType # Str(Walking)

\* Round2Km truncating instead of rounding
Round2Km_Truncated(m) == m \div 10

\* round(total_distance / 1000, 2), in hundredths of a kilometre
Round2Km(m) ==
  LET q == m \div 10
      r == m % 10
  IN IF r > 5 \/ (r = 5 /\ q % 2 = 1) THEN q + 1 ELSE q

\* update_daily_steps, lines 53-59
UpdateProperties(new_steps) ==
  [ActivityType |-> TitleOf(Walking),
   TotalSteps |-> new_steps.totalSteps,
   StepGoal |-> new_steps.stepGoal,
   TotalDistanceKm |-> Round2Km(new_steps.totalDistance)]

\* create_daily_steps, lines 64-71
CreateProperties(new_steps) ==
  [ActivityType |-> TitleOf(Walking),
   Date |-> new_steps.calendarDate,
   TotalSteps |-> new_steps.totalSteps,
   StepGoal |-> new_steps.stepGoal,
   TotalDistanceKm |-> Round2Km(new_steps.totalDistance)]

\* StepsBranch without the create branch
StepsBranch_NoCreate(existing, new_steps) ==
  IF existing # None /\ steps_need_update(existing, new_steps) THEN "update"
  ELSE "wellness"

\* main, lines 204-207: what follows the lookup
StepsBranch(existing, new_steps) ==
  IF existing # None /\ steps_need_update(existing, new_steps) THEN "update"
  ELSE IF existing = None THEN "create"
  ELSE "wellness"

\* update_wellness_database without the return of lines 118-119
EnterWellness_Unconditional ==
  pc' = "sleep" /\ i' = i /\ sleep_retry' = 0 /\ waits' = <<>>

\* update_wellness_database, lines 118-126: return when the wellness table
\* is not configured, else go on to get_sleep_data
EnterWellness ==
  IF env.wellness_database_id = ""
  THEN NextRecord /\ UNCHANGED <<sleep_retry, waits>>
  ELSE pc' = "sleep" /\ i' = i /\ sleep_retry' = 0 /\ waits' = <<>>

\* an exception leaves main()
Crash(exc) == pc' = "crashed" /\ uncaught' = exc

\* main, lines 201-204: the next record is taken and looked up
StepsLookup ==
  /\ pc = "lookup"
  /\ \E e \in NotionOutcomes :
       LET new_steps == daily_steps[i]
           results == QuerySteps(steps_table, new_steps.calendarDate)
           existing == daily_steps_exist(results)
       IN /\ steps' = new_steps
          /\ data_called' = TRUE
          /\ failed' = (failed \/ e # "ok")
          /\ log' = <<Call("query", "steps", [Date |-> new_steps.calendarDate, ActivityType |-> Walking],
                          e, IF e = "ok" THEN results ELSE <<>>)>>
          /\ IF e = "ok"
             THEN /\ existing_steps' = existing
                  /\ uncaught' = uncaught
                  /\ LET branch == StepsBranch(existing, new_steps)
                     IN IF branch = "wellness" THEN EnterWellness
                        ELSE pc' = branch /\ UNCHANGED <<i, sleep_retry, waits>>
             ELSE /\ existing_steps' = None
                  /\ Crash("RemoteError")
                  /\ UNCHANGED <<i, sleep_retry, waits>>
  /\ sleep_data' = None
  /\ goals' = NoGoals
  /\ exercise_logged' = FALSE
  /\ existing_entry' = <<>>
  /\ UNCHANGED <<config, run, tables, collector, writes, extract>>

\* main, line 205: update_daily_steps
StepsUpdate ==
  /\ pc = "update"
  /\ \E e \in NotionOutcomes :
       LET props == UpdateProperties(steps)
       IN /\ data_called' = TRUE
          /\ writes' = writes + 1
          /\ failed' = (failed \/ e # "ok")
          /\ log' = Append(log, Call("update", "steps",
                                     [page_id |-> existing_steps.id, properties |-> props],
                                     e, None))
          /\ IF e = "ok"
             THEN /\ steps_table' = UpdatePage(steps_table, existing_steps.id, props)
                  /\ uncaught' = uncaught
                  /\ EnterWellness
             ELSE /\ steps_table' = steps_table
                  /\ Crash("RemoteError")
                  /\ UNCHANGED <<i, sleep_retry, waits>>
  /\ UNCHANGED <<config, run, wellness_table, collector, steps,
                 existing_steps, sleep_data, goals, exercise_logged,
                 existing_entry, extract>>

\* main, line 207: create_daily_steps
StepsCreate ==
  /\ pc = "create"
  /\ \E e \in NotionOutcomes :
       LET props == CreateProperties(steps)
       IN /\ data_called' = TRUE
          /\ writes' = writes + 1
          /\ failed' = (failed \/ e # "ok")
          /\ log' = Append(log, Call("create", "steps",
                                     [page_id |-> Len(steps_table) + 1, properties |-> props],
                                     e, None))
          /\ IF e = "ok"
             THEN /\ steps_table' = CreatePage(steps_table, props)
                  /\ uncaught' = uncaught
                  /\ EnterWellness
             ELSE /\ steps_table' = steps_table
                  /\ Crash("RemoteError")
                  /\ UNCHANGED <<i, sleep_retry, waits>>
  /\ UNCHANGED <<config, run, wellness_table, collector, steps,
                 existing_steps, sleep_data, goals, exercise_logged,
                 existing_entry, extract>>

\* ---------------------------------------------------------- wellness sync
\* update_wellness_database, line 130
StepsGoalMet(new_steps) == new_steps.totalSteps >= new_steps.stepGoal

\* SleepGoalMet without the 7 hour floor
SleepGoalMet_ScoreOnly(m) ==
  CASE m.score.t = "num" -> [ok |-> TRUE, v |-> m.score.v >= 85]
    [] m.score.t = "float" -> [ok |-> TRUE, v |-> m.score.c >= 8500]
    [] OTHER -> [ok |-> FALSE, v |-> FALSE]

\* update_wellness_database, line 131: "and" does not evaluate the score of
\* a short night; comparing a score that is not a number is a TypeError
SleepGoalMet(m) ==
  IF m.duration >= 700
  THEN CASE m.score.t = "num" -> [ok |-> TRUE, v |-> m.score.v >= 85]
         [] m.score.t = "float" -> [ok |-> TRUE, v |-> m.score.c >= 8500]
         [] OTHER -> [ok |-> FALSE, v |-> FALSE]
  ELSE [ok |-> TRUE, v |-> FALSE]

\* update_wellness_database, lines 134-140: rows of the general activity
\* table of that date whose type is not "Walking"
QueryExercise(table, steps_date) ==
  SelectSeq(table, LAMBDA r : r.Date = steps_date /\ r.ActivityType # Walking)

\* update_wellness_database, lines 144-147
QueryWellness(table, steps_date) ==
  SelectSeq(table, LAMBDA r : r.Date = steps_date)

\* update_wellness_database, lines 149-154
WellnessProperties(steps_date, g, exercise) ==
  [Date |-> steps_date,
   StepsFlag |-> g.steps_goal_met,
   SleepFlag |-> g.sleep_goal_met,
   ExerciseFlag |-> exercise]

\* get_sleep_data, lines 76-88, called from line 126, and on its return
\* lines 127-131: the metrics and the two goals
SleepFetch ==
  /\ pc = "sleep"
  /\ \E e \in GarminOutcomes :
       LET steps_date == steps.calendarDate
           limited == e # "ok" /\ IsRateLimit(e)
           returned == IF e = "ok" THEN env.sleep[steps_date] ELSE None
           m == extract_sleep_metrics(returned)
           sg == SleepGoalMet(m)
       IN /\ data_called' = TRUE
          /\ failed' = (failed \/ e # "ok")
          /\ log' = Append(log, Call("get_sleep_data", "garmin", steps_date, e,
                                     IF e = "ok" THEN env.sleep[steps_date] ELSE None))
          /\ waits' = IF limited THEN Append(waits, Backoff(sleep_retry)) ELSE waits
          /\ IF limited /\ MayRetry(sleep_retry)
             THEN /\ sleep_retry' = sleep_retry + 1
                  /\ UNCHANGED <<pc, uncaught, goals, sleep_data>>
             ELSE /\ sleep_retry' = sleep_retry
                  /\ sleep_data' = returned
                  /\ IF m.raised \/ ~sg.ok
                     THEN Crash("TypeError") /\ goals' = goals
                     ELSE /\ pc' = "exercise"
                          /\ uncaught' = uncaught
                          /\ goals' = [steps_goal_met |-> StepsGoalMet(steps),
                                       sleep_goal_met |-> sg.v]
  /\ UNCHANGED <<config, run, tables, collector, record,
                 exercise_logged, existing_entry, writes, extract>>

\* update_wellness_database, lines 134-141
ExerciseQuery ==
  /\ pc = "exercise"
  /\ \E e \in NotionOutcomes :
       LET results == QueryExercise(env.activities, steps.calendarDate)
       IN /\ data_called' = TRUE
          /\ failed' = (failed \/ e # "ok")
          /\ log' = Append(log, Call("query", "activity", steps.calendarDate,
                                     e, IF e = "ok" THEN results ELSE <<>>))
          /\ IF e = "ok"
             THEN /\ exercise_logged' = (Len(results) > 0)
                  /\ pc' = "wellness_lookup"
                  /\ uncaught' = uncaught
             ELSE exercise_logged' = exercise_logged /\ Crash("RemoteError")
  /\ UNCHANGED <<config, run, tables, waits, collector, record,
                 sleep_retry, sleep_data, goals, existing_entry, writes, extract>>

\* update_wellness_database, lines 144-147
WellnessLookup ==
  /\ pc = "wellness_lookup"
  /\ \E e \in NotionOutcomes :
       LET results == QueryWellness(wellness_table, steps.calendarDate)
       IN /\ data_called' = TRUE
          /\ failed' = (failed \/ e # "ok")
          /\ log' = Append(log, Call("query", "wellness", steps.calendarDate,
                                     e, IF e = "ok" THEN results ELSE <<>>))
          /\ IF e = "ok"
             THEN /\ existing_entry' = results
                  /\ pc' = "wellness_write"
                  /\ uncaught' = uncaught
             ELSE existing_entry' = existing_entry /\ Crash("RemoteError")
  /\ UNCHANGED <<config, run, tables, waits, collector, record,
                 sleep_retry, sleep_data, goals, exercise_logged, writes, extract>>

\* update_wellness_database, lines 149-170: the write, whose exception is
\* caught, and the return to the loop of main
WellnessWrite ==
  /\ pc = "wellness_write"
  /\ \E e \in NotionOutcomes :
       LET props == WellnessProperties(steps.calendarDate, goals, exercise_logged)
           found == existing_entry # <<>>
           page_id == IF found THEN existing_entry[1].id ELSE Len(wellness_table) + 1
       IN /\ data_called' = TRUE
          /\ writes' = writes + 1
          /\ failed' = (failed \/ e # "ok")
          /\ log' = Append(log, Call(IF found THEN "update" ELSE "create", "wellness",
                                     [page_id |-> page_id, properties |-> props],
                                     e, None))
          /\ wellness_table' =
               IF e # "ok" THEN wellness_table
               ELSE IF found THEN UpdatePage(wellness_table, page_id, props)
               ELSE CreatePage(wellness_table, props)
          /\ NextRecord
  /\ UNCHANGED <<config, run, uncaught, steps_table, waits,
                 collector, steps, existing_steps, sleep_retry, sleep_data,
                 goals, exercise_logged, existing_entry, extract>>

\* ------------------------------------------------------------------- runs
Stopped == {"done", "login_failed", "crashed"}

\* main() is started again by the scheduler; the tables keep their rows
StartRun ==
  /\ pc \in Stopped
  /\ run < MaxRuns
  /\ run' = run + 1
  /\ pc' = "login"
  /\ uncaught' = ""
  /\ waits' = <<>>
  /\ retry_count' = 0
  /\ di' = 1
  /\ daily_steps' = <<>>
  /\ i' = 0
  /\ steps' = NoRecord
  /\ existing_steps' = None
  /\ sleep_retry' = 0
  /\ sleep_data' = None
  /\ goals' = NoGoals
  /\ exercise_logged' = FALSE
  /\ existing_entry' = <<>>
  /\ log' = <<>>
  /\ writes' = 0
  /\ data_called' = FALSE
  /\ UNCHANGED <<config, tables, failed, extract>>

Next ==
  \/ Login
  \/ LoginRetry
  \/ FetchSteps
  \/ Collected
  \/ StepsLookup
  \/ StepsUpdate
  \/ StepsCreate
  \/ SleepFetch
  \/ ExerciseQuery
  \/ WellnessLookup
  \/ WellnessWrite
  \/ StartRun

Spec == Init /\ [][Next]_vars

\* one run of main(), with the calls of the collector kept in the log
NextOneRun ==
  \/ Login
  \/ LoginRetry
  \/ FetchStepsLogged
  \/ Collected
  \/ StepsLookup
  \/ StepsUpdate
  \/ StepsCreate
  \/ SleepFetch
  \/ ExerciseQuery
  \/ WellnessLookup
  \/ WellnessWrite

SpecOneRun == Init /\ [][NextOneRun]_vars

\* main() is sequential and every remote call returns or raises, so a run
\* that can take a step takes one
SpecOneRunFair == SpecOneRun /\ WF_vars(NextOneRun)

\* ============================================================== properties
Last(s) == s[Len(s)]
StepsCalls(ops) == SelectSeq(log, LAMBDA c : c.db = "steps" /\ c.op \in ops)
WellnessCalls(ops) == SelectSeq(log, LAMBDA c : c.db = "wellness" /\ c.op \in ops)
SleepCalls == SelectSeq(log, LAMBDA c : c.op = "get_sleep_data")
LoginCalls == SelectSeq(log, LAMBDA c : c.op = "login")
Writes == {"update", "create"}

\* the log is that of a record of this run, and its steps sync has ended
\* (normally or by an exception)
StepsSyncEnded == log # <<>> /\ log[1].db = "steps" /\ pc \notin {"update", "create"}

\* a stored distance d (hundredths of a km) is m metres rounded to 2 decimals
IsRounded(d, m) == (10 * d - m) \in -5..5

\* the row is the one the program writes for record r
IsProgramRow(row, r) ==
  /\ TitleText(row.ActivityType) = Walking
  /\ row.TotalSteps = r.totalSteps
  /\ row.StepGoal = r.stepGoal
  /\ IsRounded(row.TotalDistanceKm, r.totalDistance)

\* C1: a second run over unchanged upstream data, with every remote call of
\* both runs succeeding, issues no pages.create and no pages.update.
C1_SecondRunWritesNothing ==
  (run = 2 /\ pc = "done" /\ ~failed) => writes = 0

\* C2: when the lookup finds the row this program wrote for the unchanged
\* record, the steps sync issues the lookup only: no update and no create.
C2_UpToDateRowNotWritten ==
  (StepsSyncEnded /\ log[1].ok /\ log[1].res # <<>>
     /\ IsProgramRow(log[1].res[1], steps))
  => StepsCalls(Writes) = <<>>

\* C3: per record, exactly one lookup on the steps table, filtered by the
\* record's date and category Walking, and at most one write: one create and
\* no update when the lookup returned no row, one update of the first
\* returned row and no create when a compared field of that row differs from
\* the record, and never a create when a row was found.
C3_OneLookupAtMostOneWrite ==
  (log # <<>> /\ log[1].db = "steps") =>
    LET q == log[1]
        w == StepsCalls(Writes)
    IN /\ StepsCalls({"query"}) = <<q>>
       /\ q.arg = [Date |-> steps.calendarDate, ActivityType |-> Walking]
       /\ Len(w) <= 1
       /\ pc \in {"update", "create"} => w = <<>>
       /\ StepsSyncEnded =>
            IF ~q.ok THEN w = <<>>
            ELSE IF q.res = <<>> THEN Len(w) = 1 /\ w[1].op = "create"
            ELSE IF ~IsProgramRow(q.res[1], steps)
                 THEN Len(w) = 1 /\ w[1].op = "update" /\ w[1].arg.page_id = q.res[1].id
                 ELSE \A k \in 1..Len(w) : w[k].op = "update"

\* C3 witness: a stale row was found and updated once
C3_Witness ==
  /\ StepsSyncEnded /\ log[1].ok /\ log[1].res # <<>>
  /\ ~IsProgramRow(log[1].res[1], steps)
  /\ Len(StepsCalls(Writes)) = 1
  /\ StepsCalls(Writes)[1].op = "update"
  /\ StepsCalls(Writes)[1].ok

\* C4: every create or update on the steps table carries category Walking,
\* the record's totalSteps and stepGoal and its distance in km rounded to 2
\* decimals (a create also the record's date), and the row written holds
\* exactly these values afterwards.
C4_WritesAreFullReplace ==
  \A k \in 1..Len(log) :
    LET c == log[k]
    IN (c.db = "steps" /\ c.op \in Writes) =>
         /\ IsProgramRow(c.arg.properties, steps)
         /\ c.op = "create" => c.arg.properties.Date = steps.calendarDate
         /\ c.ok => \E j \in 1..Len(steps_table) :
                      /\ steps_table[j].id = c.arg.page_id
                      /\ steps_table[j].Date = steps.calendarDate
                      /\ IsProgramRow(steps_table[j], steps)

\* C4 witness: a row was created for a record of 8046 m and holds 8.05 km
C4_Witness ==
  /\ StepsSyncEnded
  /\ steps.totalDistance = 8046
  /\ StepsCalls({"create"}) # <<>>
  /\ StepsCalls({"create"})[1].ok
  /\ \E j \in 1..Len(steps_table) :
       /\ steps_table[j].id = StepsCalls({"create"})[1].arg.page_id
       /\ steps_table[j].TotalDistanceKm = 805

\* C5: after login, the failure of a remote call never halts the batch: no
\* run is ended by the exception of a remote call.
C5_RemoteFailureNeverHalts ==
  pc = "crashed" => uncaught # "RemoteError"

\* C6: no exception raised by a remote call inside update_wellness_database
\* leaves it: main is never ended by the exception of a call on the activity
\* table or on the wellness table.
C6_WellnessErrorsSwallowed ==
  (pc = "crashed" /\ uncaught = "RemoteError") => Last(log).db = "steps"

\* C7: for one date get_sleep_data calls the service at most 4 times; it
\* calls again only after a rate-limit failure, and only after the first three;
\* the k-th consecutive rate-limit failure is followed by a wait of 10, 20,
\* 40, 80 seconds and no other failure by any wait; it returns the fetched
\* record on success and None on every failure, and never raises.
C7_SleepRetryPolicy ==
  LET sc == SleepCalls
      n == Len(sc)
      limited(k) == ~sc[k].ok /\ sc[k].err \in {"429", "Too Many Requests"}
  IN n > 0 =>
       /\ n <= 4
       /\ \A k \in 1..n : sc[k].arg = steps.calendarDate
       /\ \A k \in 1..(n - 1) : limited(k)
       /\ Len(waits) = Cardinality({k \in 1..n : limited(k)})
       /\ \A k \in 1..Len(waits) : waits[k] = <<10, 20, 40, 80>>[k]
       /\ pc = "sleep" => (limited(n) /\ n <= 3)
       /\ pc # "sleep" =>
            /\ sleep_data = IF sc[n].ok THEN env.sleep[steps.calendarDate] ELSE None
            /\ Last(log).op = "get_sleep_data" => uncaught # "RemoteError"

\* C7 witness: four rate-limited calls, the four waits, and None returned
C7_Witness ==
  /\ pc = "exercise"
  /\ Len(SleepCalls) = 4
  /\ waits = <<10, 20, 40, 80>>
  /\ sleep_data = None

\* C8: login is called at most twice; the second call is made only after a
\* rate-limit failure of the first and a 10 second wait; a first failure of
\* another kind, or two failures, end the run in login_failed with no data
\* call made, and nothing but a new run follows; a successful call is
\* followed by the collection, and no data call is made without one.
C8_LoginInv ==
  LET lc == LoginCalls
      limited(c) == ~c.ok /\ c.err \in {"429", "Too Many Requests"}
  IN /\ Len(lc) <= 2
     /\ pc = "login" => lc = <<>>
     /\ pc = "login_retry" => (Len(lc) = 1 /\ limited(lc[1]) /\ waits = <<10>>)
     /\ pc = "login_failed" =>
          /\ ~data_called
          /\ \A k \in 1..Len(lc) : ~lc[k].ok
          /\ \/ Len(lc) = 1 /\ ~limited(lc[1])
             \/ Len(lc) = 2 /\ limited(lc[1]) /\ waits = <<10>>
     /\ (pc = "collect" /\ ~data_called) =>
          /\ Len(lc) >= 1
          /\ Last(lc).ok
          /\ Len(lc) = 2 => limited(lc[1])
     /\ data_called => pc \notin {"login", "login_retry", "login_failed"}

C8_LoginStep ==
  /\ (pc = "login_failed") => (pc' = "login" /\ run' = run + 1)
  /\ (Len(LoginCalls') = 2 /\ Len(LoginCalls) # 2) => pc = "login_retry"
  /\ (pc \in {"login", "login_retry"} /\ Last(log').ok) => pc' = "collect"

C8_LoginStateMachine == []C8_LoginInv /\ [][C8_LoginStep]_vars

\* C8 witness: two failed logins ended the run
C8_Witness == pc = "login_failed" /\ Len(LoginCalls) = 2

\* C9: every wellness write carries the date and all three flags, with
\* stepsGoalMet = (totalSteps >= stepGoal), sleepGoalMet = (hours >= 7 and
\* score >= 85) of the extracted metrics, exerciseLogged = (an activity of
\* that date is not Walking); 15000 steps for a goal of 10000 give true and
\* 6.5 hours with score 90 give false; the written row holds these values.
C9_WellnessFlags ==
  \A k \in 1..Len(log) :
    LET c == log[k]
    IN (c.db = "wellness" /\ c.op \in Writes) =>
         LET p == c.arg.properties
             m == extract_sleep_metrics(sleep_data)
         IN /\ DOMAIN p = {"Date", "StepsFlag", "SleepFlag", "ExerciseFlag"}
            /\ p.Date = steps.calendarDate
            /\ p.StepsFlag = (steps.totalSteps >= steps.stepGoal)
            /\ ~m.raised
            /\ p.SleepFlag = (m.duration >= 700 /\ m.score.v >= 85)
            /\ p.ExerciseFlag = (\E a \in 1..Len(env.activities) :
                                   /\ env.activities[a].Date = steps.calendarDate
                                   /\ env.activities[a].ActivityType # Walking)
            /\ (steps.totalSteps = 15000 /\ steps.stepGoal = 10000) => p.StepsFlag
            /\ (m.duration = 650 /\ m.score = Num(90)) => ~p.SleepFlag
            /\ c.ok => \E j \in 1..Len(wellness_table) :
                         /\ wellness_table[j].id = c.arg.page_id
                         /\ \A f \in DOMAIN p : wellness_table[j][f] = p[f]

\* C9 witness: a row with all flags set was updated for a day of 15000 steps
\* and 6.5 hours of sleep with score 90
C9_Witness ==
  /\ WellnessCalls({"update"}) # <<>>
  /\ WellnessCalls({"update"})[1].ok
  /\ steps.totalSteps = 15000
  /\ sleep_data = SleepEntry(Num(23400), Num(90))
  /\ existing_entry[1].SleepFlag
  /\ \E j \in 1..Len(wellness_table) :
       /\ wellness_table[j].id = existing_entry[1].id
       /\ wellness_table[j].StepsFlag
       /\ ~wellness_table[j].SleepFlag
       /\ ~wellness_table[j].ExerciseFlag

\* ------------------------------------------- extract_sleep_metrics alone
\* values a sleepTimeSeconds field takes
SecondsValues == {Num(0), Num(23400), Num(25200), Num(27000), Float(2520000), None}
\* values a sleepScore field takes
ScoreValues == {Num(0), Num(84), Num(90), Str(<<"8", "8">>), None}
\* values sleepScores.overall takes
OverallValues ==
  {Num(88), Float(8870), Str(<<"8", "8">>), Str(<<"n", "a">>), None, EmptyDict,
   Dict([value |-> Num(90)]), Dict([value |-> Str(<<"8", "8">>)]),
   Dict([value |-> None]), Dict([qualifier |-> Num(1)])}
SleepScoresValues == {None, EmptyDict} \cup {Dict([overall |-> o]) : o \in OverallValues}

FlatEntries ==
  {EmptyDict}
    \cup {Dict([sleepTimeSeconds |-> a]) : a \in SecondsValues}
    \cup {Dict([sleepScore |-> b]) : b \in ScoreValues}
    \cup {SleepEntry(a, b) : a \in SecondsValues, b \in ScoreValues}
DailySleepValues ==
  {None, EmptyDict}
    \cup {Dict([sleepTimeSeconds |-> a]) : a \in SecondsValues}
    \cup {Dict([sleepScores |-> ss]) : ss \in SleepScoresValues}
    \cup {Dict([sleepTimeSeconds |-> a, sleepScores |-> ss]) :
            a \in {Num(27000), None}, ss \in SleepScoresValues}

\* the payloads extract_sleep_metrics is applied to
SleepInputs ==
  {None, Num(0), Num(5), Str(<<>>), List(<<>>)}
    \cup FlatEntries
    \cup {List(<<e>>) : e \in FlatEntries}
    \cup {List(<<SleepEntry(Num(25200), Num(90)), e>>) : e \in {EmptyDict, SleepEntry(Num(0), Num(84))}}
    \cup {List(<<SleepEntry(Num(0), Num(84)), SleepEntry(Num(25200), Num(90))>>)}
    \cup {Dict([dailySleepDTO |-> ds]) : ds \in DailySleepValues}
    \cup {Dict([dailySleepDTO |-> ds, sleepTimeSeconds |-> Num(23400), sleepScore |-> Num(84)]) :
            ds \in {EmptyDict, Dict([sleepTimeSeconds |-> Num(27000)])}}

\* extract_sleep_metrics has not been applied yet
Pending == [raised |-> FALSE, duration |-> -1, score |-> None]

InitExtract ==
  /\ env \in {sc \in Scenarios : sc.wellness_database_id = ""}
  /\ run = 1
  /\ pc = "extract"
  /\ uncaught = ""
  /\ steps_table = <<>>
  /\ wellness_table = <<>>
  /\ waits = <<>>
  /\ retry_count = 0
  /\ di = 1
  /\ daily_steps = <<>>
  /\ i = 0
  /\ steps = NoRecord
  /\ existing_steps = None
  /\ sleep_retry = 0
  /\ sleep_data = None
  /\ goals = NoGoals
  /\ exercise_logged = FALSE
  /\ existing_entry = <<>>
  /\ log = <<>>
  /\ writes = 0
  /\ data_called = FALSE
  /\ failed = FALSE
  /\ xin \in SleepInputs
  /\ xout = Pending

\* update_wellness_database, line 127, on its own
Extract ==
  /\ pc = "extract"
  /\ xout = Pending
  /\ xout' = extract_sleep_metrics(xin)
  /\ UNCHANGED <<config, run, pc, uncaught, tables, waits,
                 collector, record, wellness, log, writes, data_called, failed, xin>>

NextExtract == Extract

SpecExtract == InitExtract /\ [][NextExtract]_vars

\* the specified dispatch, stated on the payload and the returned pair
RECURSIVE Decimal(_)
Decimal(n) ==
  IF n < 10 THEN <<Digits[n + 1]>>
  ELSE Append(Decimal(n \div 10), Digits[(n % 10) + 1])

\* h hundredths of an hour are v seconds / 3600
IsHoursOf(h, v) ==
  CASE v.t = "num" -> h * 36 = v.v
    [] v.t = "float" -> h * 3600 = v.c
    [] OTHER -> FALSE

\* n is the integer of v
IsIntegerOf(n, v) ==
  CASE v.t = "num" -> n = v.v
    [] v.t = "float" -> n * 100 <= v.c /\ v.c < (n + 1) * 100
    [] v.t = "str" -> Decimal(n) = v.s
    [] OTHER -> FALSE

DurationFrom(obj, out) ==
  IF "sleepTimeSeconds" \in DOMAIN obj.d
  THEN IsHoursOf(out.duration, obj.d["sleepTimeSeconds"])
  ELSE out.duration = 0

OwnFields(obj, out) ==
  /\ DurationFrom(obj, out)
  /\ out.score = IF "sleepScore" \in DOMAIN obj.d THEN obj.d["sleepScore"] ELSE Num(0)

NestedFields(dto, out) ==
  /\ DurationFrom(dto, out)
  /\ out.score.t = "num"
  /\ LET present(o, k) == o.t = "dict" /\ k \in DOMAIN o.d
     IN IF ~present(dto, "sleepScores") \/ ~present(dto.d["sleepScores"], "overall")
        THEN out.score.v = 0
        ELSE LET overall == dto.d["sleepScores"].d["overall"]
             IN IF overall.t \in {"num", "float", "str"}
                THEN IsIntegerOf(out.score.v, overall)
                ELSE IF present(overall, "value")
                     THEN IsIntegerOf(out.score.v, overall.d["value"])
                     ELSE out.score.v = 0

Dispatched(in, out) ==
  IF in \in {None, List(<<>>), EmptyDict} THEN out = Ret(0, Num(0))
  ELSE IF in.t = "list" THEN OwnFields(in.l[1], out)
  ELSE IF in.t = "dict"
       THEN IF "dailySleepDTO" \in DOMAIN in.d
            THEN NestedFields(in.d["dailySleepDTO"], out)
            ELSE OwnFields(in, out)
  ELSE TRUE

\* the fields of the payload hold what the dispatch reads as numbers:
\* seconds are numbers, overall and value are numbers or digit strings
Numeric(v) == v.t \in {"num", "float"}
IntLike(v) == Numeric(v) \/ (v.t = "str" /\ \E n \in 0..100 : Decimal(n) = v.s)
SecondsReadable(obj) ==
  obj.t = "dict" /\ ("sleepTimeSeconds" \in DOMAIN obj.d => Numeric(obj.d["sleepTimeSeconds"]))
ScoreReadable(dto) ==
  ("sleepScores" \in DOMAIN dto.d /\ Truthy(dto.d["sleepScores"])) =>
     LET ss == dto.d["sleepScores"]
     IN /\ ss.t = "dict"
        /\ "overall" \in DOMAIN ss.d =>
             LET o == ss.d["overall"]
             IN CASE o.t = "dict" -> ("value" \in DOMAIN o.d => IntLike(o.d["value"]))
                  [] o.t = "none" -> TRUE
                  [] OTHER -> IntLike(o)
Readable(in) ==
  IF in.t = "list" /\ in.l # <<>> THEN SecondsReadable(in.l[1])
  ELSE IF in.t = "dict" /\ "dailySleepDTO" \in DOMAIN in.d
       THEN SecondsReadable(in.d["dailySleepDTO"]) /\ ScoreReadable(in.d["dailySleepDTO"])
  ELSE IF in.t = "dict" /\ in # EmptyDict THEN SecondsReadable(in)
  ELSE TRUE

\* C10: extract_sleep_metrics returns the pair of the specified dispatch:
\* (0, 0) for None, [] and {}; the first element's own fields for a list;
\* the nested duration and the integer of overall.value or of overall (0
\* when absent) for an object with dailySleepDTO; the object's own fields
\* otherwise; (7.0, 90) and (7.5, 88) for the two payloads of the spec.
C10_ShapeDispatch ==
  xout # Pending =>
    /\ Readable(xin) => ~xout.raised
    /\ ~xout.raised => Dispatched(xin, xout)
    /\ xin = List(<<SleepEntry(Num(25200), Num(90))>>) => xout = Ret(700, Num(90))
    /\ xin = SleepDTO(Num(27000), Dict([value |-> Str(<<"8", "8">>)])) => xout = Ret(750, Num(88))

\* C10 witness: the nested payload of the spec gave (7.5, 88)
C10_Witness ==
  /\ xin = SleepDTO(Num(27000), Dict([value |-> Str(<<"8", "8">>)]))
  /\ xout = Ret(750, Num(88))

\* a field that is null, a number or a string
Plain(v) == v.t \in {"none", "num", "float", "str"}
\* an object whose own sleepTimeSeconds and sleepScore, where present, are plain
PlainFlat(obj) ==
  /\ obj.t = "dict"
  /\ \A k \in DOMAIN obj.d \cap {"sleepTimeSeconds", "sleepScore"} : Plain(obj.d[k])
\* a dailySleepDTO whose sleepTimeSeconds, sleepScores, overall and value,
\* where present, are plain or the object that holds the next of them
PlainOverall(o) ==
  \/ Plain(o)
  \/ o.t = "dict" /\ ("value" \in DOMAIN o.d => Plain(o.d["value"]))
PlainScores(ss) ==
  \/ Plain(ss)
  \/ ss.t = "dict" /\ ("overall" \in DOMAIN ss.d => PlainOverall(ss.d["overall"]))
PlainNested(dto) ==
  /\ dto.t = "dict"
  /\ "sleepTimeSeconds" \in DOMAIN dto.d => Plain(dto.d["sleepTimeSeconds"])
  /\ "sleepScores" \in DOMAIN dto.d => PlainScores(dto.d["sleepScores"])
\* the payloads of the three upstream shapes
UpstreamShaped(in) ==
  \/ in.t = "list" /\ in.l # <<>> /\ PlainFlat(in.l[1])
  \/ in.t = "dict" /\ "dailySleepDTO" \in DOMAIN in.d /\ PlainNested(in.d["dailySleepDTO"])
  \/ in.t = "dict" /\ "dailySleepDTO" \notin DOMAIN in.d /\ PlainFlat(in)

\* C11: on every payload of the three upstream shapes whose fields are
\* absent, null, a number or a string, extract_sleep_metrics returns without
\* raising and the score it returns is an integer, never null or a string.
C11_TotalAndNormalizing ==
  (xout # Pending /\ UpstreamShaped(xin)) =>
    /\ ~xout.raised
    /\ xout.score.t = "num"

\* C12: when the wellness table identifier is not configured, no record causes
\* a sleep fetch, an exercise query, a wellness lookup or a wellness write,
\* the wellness table is left as it was, and the steps sync still looks up
\* and writes every record.
C12_WellnessOptional ==
  env.wellness_database_id = "" =>
    /\ pc \notin {"sleep", "exercise", "wellness_lookup", "wellness_write"}
    /\ \A k \in DOMAIN log : log[k].op = "login" \/ log[k].db = "steps"
    /\ wellness_table = env.wellness0
    /\ (StepsSyncEnded /\ \A k \in DOMAIN log : log[k].ok) =>
         /\ Len(log) = 2
         /\ log[2].op \in Writes
         /\ \E j \in DOMAIN steps_table :
              steps_table[j].Date = steps.calendarDate /\ IsProgramRow(steps_table[j], steps)
    /\ (pc = "done" /\ uncaught = "") => i = Len(daily_steps)

\* C12 witness: an unconfigured run synced both of its records and stopped
C12_Witness ==
  /\ env.wellness_database_id = ""
  /\ pc = "done" /\ i = 2 /\ writes = 2
  /\ Len(log) = 2 /\ log[1].db = "steps" /\ log[2].ok

\* the calls of the collector, in the order they were made
Fetches == SelectSeq(log, LAMBDA c : c.op = "get_daily_steps")
RateLimited(c) == ~c.ok /\ IsRateLimit(c.err)
\* of the calls before the j-th, the rate-limited ones, and those of them
\* that were for the day of the j-th
LimitsBefore(F, j) == {k \in 1..(j - 1) : RateLimited(F[k])}
OwnLimitsBefore(F, j) == {k \in LimitsBefore(F, j) : F[k].arg = F[j].arg}
\* the collector is running or has just returned: waits holds its waits
Collecting == pc \in {"collect", "collected"}

\* C13: the retry policy of the step fetch is per day: the wait after a
\* rate-limited fetch of a day is 10 * 2^k seconds where k counts the earlier
\* rate-limited fetches of that same day, and a day whose last fetch was
\* rate-limited has been given up only after 4 rate-limited fetches of its own.
C13_PerDayRetry ==
  Collecting =>
    LET F == Fetches
    IN \A j \in DOMAIN F :
         RateLimited(F[j]) =>
           /\ waits[Cardinality(LimitsBefore(F, j)) + 1]
                = Backoff(Cardinality(OwnLimitsBefore(F, j)))
           /\ (pc = "collected" /\ \A k \in (j + 1)..Len(F) : F[k].arg # F[j].arg)
                => Cardinality(OwnLimitsBefore(F, j)) = 3

\* C14: within one collection a day whose fetch succeeded is not fetched
\* again, and the fetch that follows a rate-limited fetch is for the same day
\* or a later one, never for an earlier day.
C14_EachDayFetchedOnce ==
  LET F == Fetches
  IN \A j \in DOMAIN F : \A k \in (j + 1)..Len(F) :
       /\ F[j].ok => F[k].arg # F[j].arg
       /\ (RateLimited(F[j]) /\ k = j + 1) => F[k].arg >= F[j].arg

\* the responses of the calls F[a], .., F[b], one after the other
RECURSIVE Responses(_, _, _)
Responses(F, a, b) == IF a > b THEN <<>> ELSE F[a].res \o Responses(F, a + 1, b)

\* C15: whatever the outcomes of the fetches, get_all_daily_steps returns
\* without raising; its last pass fetched every day of the range in ascending
\* order, also the days after a failed one, and the result is the responses
\* of that pass one after the other: in ascending date order, each day's
\* response once, nothing for a day whose fetch failed, nothing from an
\* abandoned pass.
C15_CollectorResult ==
  /\ Collecting => uncaught = ""
  /\ pc = "collected" =>
       LET F == Fetches
           n == Len(daterange)
           base == Len(F) - n
       IN /\ base >= 0
          /\ \A x \in 1..n : F[base + x].arg = daterange[x]
          /\ \A x \in 1..n : F[base + x].res = (IF F[base + x].ok THEN env.steps[daterange[x]] ELSE <<>>)
          /\ daily_steps = Responses(F, base + 1, base + n)
          /\ \A a, b \in DOMAIN daily_steps :
               a < b => daily_steps[a].calendarDate <= daily_steps[b].calendarDate

\* C15 witness: a pass that had fetched the first day was abandoned; on the
\* last pass the first day failed and the second day was still fetched
C15_Witness ==
  /\ pc = "collected"
  /\ Len(Fetches) = 4
  /\ Fetches[1].ok /\ RateLimited(Fetches[2]) /\ ~Fetches[3].ok /\ Fetches[4].ok
  /\ env.steps[0] # <<>>
  /\ daily_steps = env.steps[1] /\ daily_steps # <<>>

\* the calls on the steps table, and those of update_wellness_database
OnStepsTable(c) == c.db = "steps"
\* C16, on a state: a step fetch is in the log only after a login that
\* succeeded; until the collection has returned no record is taken and no
\* call on a table is made; in the log of a record the calls on the steps
\* table come before every call of the wellness sync.
C16_OrderInv ==
  /\ \A k \in DOMAIN log :
       log[k].op = "get_daily_steps" =>
         \E j \in 1..(k - 1) : log[j].op = "login" /\ log[j].ok
  /\ pc \in {"login", "login_retry", "login_failed"} => ~data_called
  /\ pc \in {"login", "login_retry", "login_failed", "collect", "collected"} =>
       /\ i = 0 /\ writes = 0
       /\ \A k \in DOMAIN log : log[k].db = "garmin"
  /\ (log # <<>> /\ OnStepsTable(log[1])) =>
       \A j \in DOMAIN log : \A k \in (j + 1)..Len(log) :
         ~OnStepsTable(log[j]) => ~OnStepsTable(log[k])

\* C16, on a step: a step fetch is made only while collecting; the records
\* are taken one by one in collected order, the first when the collection
\* has returned, the next when the syncs of the one before have ended; every
\* call on a table or for sleep data is for the record taken last.
C16_OrderStep ==
  /\ Len(Fetches') > Len(Fetches) => pc = "collect" /\ i = 0
  /\ i' # i =>
       /\ i' = i + 1 /\ pc' = "lookup" /\ daily_steps' = daily_steps
       /\ IF i = 0 THEN pc = "collected"
          ELSE pc \in {"lookup", "update", "create", "wellness_write"}
  /\ (log' # log /\ Last(log').op \notin {"login", "get_daily_steps"}) =>
       /\ i >= 1 /\ steps' = daily_steps[i]
       /\ pc = "lookup" <=> Len(log') = 1

\* C16: login, then the whole collection, then record by record the steps
\* sync followed by the wellness sync.
C16_Ordering == []C16_OrderInv /\ [][C16_OrderStep]_vars

\* C16 witness: the second record's wellness write followed its steps sync
C16_Witness ==
  /\ pc = "done" /\ i = 2
  /\ Len(log) >= 5
  /\ OnStepsTable(log[1]) /\ OnStepsTable(log[2])
  /\ log[3].op = "get_sleep_data"
  /\ Last(log).db = "wellness" /\ Last(log).op \in Writes

\* the calls of update_wellness_database in the log of the record
WellnessSyncCalls == SelectSeq(log, LAMBDA c : ~OnStepsTable(c))

\* C17: with the wellness table configured, once the syncs of a record have
\* ended with every remote call having succeeded, update_wellness_database
\* has made one sleep fetch, one exercise query, one wellness lookup by the
\* record's date, and then exactly one write: an update of the first row the
\* lookup returned, or a create with the record's date when it returned none.
C17_WellnessUpsert ==
  (/\ env.wellness_database_id # ""
   /\ log # <<>> /\ OnStepsTable(log[1])
   /\ pc \in {"lookup", "done", "crashed"}
   /\ \A k \in DOMAIN log : log[k].ok)
  => LET w == WellnessSyncCalls
     IN /\ Len(w) = 4
        /\ w[1].op = "get_sleep_data" /\ w[1].arg = steps.calendarDate
        /\ w[2].op = "query" /\ w[2].db = "activity"
        /\ w[3].op = "query" /\ w[3].db = "wellness" /\ w[3].arg = steps.calendarDate
        /\ w[4].db = "wellness"
        /\ IF w[3].res # <<>>
           THEN w[4].op = "update" /\ w[4].arg.page_id = w[3].res[1].id
           ELSE w[4].op = "create" /\ w[4].arg.properties.Date = steps.calendarDate

\* at most one Walking row per date; at most one row per date
OneWalkingRowPerDate(table) ==
  \A a, b \in DOMAIN table :
    (/\ table[a].Date = table[b].Date
     /\ TitleText(table[a].ActivityType) = Walking
     /\ TitleText(table[b].ActivityType) = Walking) => a = b
OneRowPerDate(table) ==
  \A a, b \in DOMAIN table : table[a].Date = table[b].Date => a = b

\* C18: when the steps table starts with at most one Walking row per date
\* and the wellness table with at most one row per date, they hold at most
\* one such row per date at every point of every run, whatever calls failed
\* and however many records the collector returned for a day.
C18_KeyUniqueness ==
  (OneWalkingRowPerDate(env.steps0) /\ OneRowPerDate(env.wellness0)) =>
    /\ OneWalkingRowPerDate(steps_table)
    /\ OneRowPerDate(wellness_table)

\* C18 witness: a second run, after a failure, has synced the two records of
\* the same day against the one row of that day in each table
C18_Witness ==
  /\ run = 2 /\ failed /\ pc = "done" /\ i = 2
  /\ daily_steps[1].calendarDate = daily_steps[2].calendarDate
  /\ Len(steps_table) = 1 /\ Len(wellness_table) = 1
  /\ writes = 4

\* C19, on a state: the retry counters stay at 3 or below; the range is
\* walked at most 4 times, which makes at most 4 step fetches per day of the
\* range; at most 4 sleep fetches per record; at most 2 logins.
C19_Bounds ==
  /\ retry_count <= 3
  /\ sleep_retry <= 3
  /\ Cardinality({k \in DOMAIN Fetches : Fetches[k].arg = daterange[1]}) <= 4
  /\ Len(Fetches) <= 4 * Len(daterange)
  /\ Len(SleepCalls) <= 4
  /\ Len(LoginCalls) <= 2

\* C19: the bounds hold throughout, and every run whose remote calls all
\* return or raise comes to a stop: login failed, done, or an uncaught error.
C19_BoundedAndTerminates == []C19_Bounds /\ <>(pc \in Stopped)

\* C19 witness: three passes were abandoned at their last day and the fourth
\* returned, after 4 step fetches for every day of the range
C19_Witness ==
  /\ pc = "collected"
  /\ retry_count = 3
  /\ Len(Fetches) = 4 * Len(daterange)

====
